---- MODULE Spec2Model ----
(***************************************************************************)
(* A model of the YCSB load-generation harness of                          *)
(* cc/benchmark-dir/benchmark-c.cc: main's sweep over thread               *)
(* configurations and trials, the population phase (setup_store /          *)
(* thread_setup_store), the measurement phase (run_benchmark /             *)
(* thread_run_benchmark), and the shared atomics they coordinate through.  *)
(*                                                                         *)
(* Offsets are byte offsets into the key arrays, as in the source: a key   *)
(* record is 8 bytes and every loop over keys advances by 8.               *)
(***************************************************************************)
EXTENDS Integers, Sequences, FiniteSets, TLC

\* ------------------------------------------------------------------ bounds

\* Largest number of threads of a phase that the single-trial specification
\* explores.
MaxThreads == 2

\* Largest number of threads of a phase that the whole-program specification
\* explores.
MaxMainThreads == 1

\* Largest product of a corpus's keys and the threads working on it.
MaxWork == 32

\* faster_rmw's status is drawn from 0..MaxStatus.
MaxStatus == 1

\* Largest run corpus (in keys) for which a workload whose outcome varies per
\* key (the random mix, the status of a read-modify-write) is explored.
MaxRandomKeys == 2

\* --------------------------------------------------------------- constants

\* sizeof(uint64_t): the width of one key record, the stride of every key loop.
KeySize == 8

\* main's kNumArgs.
kNumArgs == 4

\* main's setup_store(store, 48); also the largest configuration of the sweep.
kPopulationThreads == 48

\* The trial loop of main: for (int j = 0; j < 3; j++).
kTrials == 3

\* The number of values of a size_t, scaled from 2^64: threads_waiting_ is
\* unsigned and wraps around at zero.
SizeModulus == 256

\* exit_code while the process is running.
Running == -1

NaN == "nan"
Inf == "inf"

\* enum class Op.
Op_Insert == "Insert"
Op_Read == "Read"
Op_Upsert == "Upsert"
Op_Scan == "Scan"
Op_ReadModifyWrite == "ReadModifyWrite"

\* enum class Workload.
A_50_50 == 0
RMW_100 == 1
UPSERT_100 == 2
READ_100 == 3

\* The compile-time constants of one build, scaled: counts in keys, sizes and
\* intervals in bytes (the source writes them as <keys> * 8).
Geometry(init, txn, chunk, refresh, pending, setup) ==
  [kInitCount |-> init, kTxnCount |-> txn, kChunkSize |-> chunk * KeySize,
   kRefreshInterval |-> refresh * KeySize,
   kCompletePendingInterval |-> pending * KeySize,
   kSetupThreads |-> setup]

\* The three static_asserts of the source.
StaticAsserts(g) ==
  /\ (g.kInitCount * KeySize) % g.kChunkSize = 0
  /\ (g.kTxnCount * KeySize) % g.kChunkSize = 0
  /\ g.kCompletePendingInterval % g.kRefreshInterval = 0

\* Builds explored by the whole-program specification.
MainGeometries ==
  { g \in { Geometry(2, 2, 1, 1, 1, s) : s \in 1..MaxMainThreads } :
      StaticAsserts(g) }

\* Builds explored by the single-trial specification: two small ones, the
\* 16-key / chunk-8 build and the chunk-16 / refresh-8 / pending-16 build.
TrialGeometries ==
  { g \in UNION { { Geometry(2, 2, 1, 1, 1, s),
                    Geometry(4, 4, 2, 1, 2, s),
                    Geometry(16, 16, 8, 4, 8, s),
                    Geometry(16, 32, 16, 8, 16, s) } : s \in 1..MaxThreads } :
      StaticAsserts(g) }

\* Builds with three chunks per corpus, and with a chunk of two drain intervals.
PressureGeometries ==
  { g \in UNION { { Geometry(6, 6, 2, 1, 2, s),
                    Geometry(8, 8, 4, 1, 2, s) } : s \in 1..MaxThreads } :
      StaticAsserts(g) }

\* ------------------------------------------------------------------- state

VARIABLES
  geo,                  \* the build's compile-time constants
  argc,                 \* main's argc
  workload,             \* atol(argv[1])
  num_threads,          \* atol(argv[2])
  load_bytes,           \* size of the load file
  run_bytes,            \* size of the run file
  pc,                   \* main's position
  exit_code,            \* Running, or the process's exit code
  thread_configurations,
  cfg_i,                \* position of the range-for over thread_configurations
  j,                    \* trial index
  store,                \* the engine instance of the current trial
  idx_,
  threads_waiting_,
  total_duration_,
  total_reads_done_,
  total_writes_done_,
  thread_idx,           \* the spawn loop's counter
  joined,               \* threads joined so far
  thr,                  \* the threads of the current phase and their locals
  result,               \* main's local result
  results_,
  engine_log            \* the calls main has made on the engine and its phases

vars == << geo, argc, workload, num_threads, load_bytes, run_bytes, pc, exit_code,
           thread_configurations, cfg_i, j, store, idx_, threads_waiting_,
           total_duration_, total_reads_done_, total_writes_done_, thread_idx,
           joined, thr, result, results_, engine_log >>

inputs == << geo, argc, workload, num_threads, load_bytes, run_bytes >>

shared == << idx_, threads_waiting_, total_duration_, total_reads_done_,
             total_writes_done_ >>

mainloop == << thread_configurations, cfg_i, j, result, results_ >>

Threads ==
  0 .. ((IF MaxThreads >= MaxMainThreads THEN MaxThreads ELSE MaxMainThreads) - 1)

\* A thread slot that holds no thread.
NoThread ==
  [body |-> "none", pc |-> "none", thread_idx |-> 0, cpu |-> -1,
   chunk_idx |-> 0, idx |-> 0, op |-> "none", reads_done |-> 0, writes_done |-> 0, status |-> 0,
   duration |-> 0, log |-> << >>]

NoStore == [open |-> FALSE, sessions |-> 0, storage |-> FALSE]

\* One call of the engine's C interface, as the session's history records it:
\* the call, complete_pending's wait flag, and the key offset it was issued at.
Call(name, wait, at) == [call |-> name, wait |-> wait, at |-> at]


\* ------------------------------------------------------------ pure helpers

\* SetThreadAffinity, the default (non-NUMA) Linux mapping, kCoreCount = 36.
SetThreadAffinity(core) ==
  IF core % 2 = 0 THEN core ELSE (core - 1) + 36

\* The operation mixers: the operations a call of FN(rng) can return.
ycsb_a_50_50 == { Op_Read, Op_Upsert }

ycsb_rmw_100 == { Op_ReadModifyWrite }

ycsb_upsert_100 == { Op_Upsert }

ycsb_read_100 == { Op_Read }

\* The template argument main's switch instantiates run_benchmark with.
FN(w) ==
  CASE w = A_50_50 -> ycsb_a_50_50
    [] w = RMW_100 -> ycsb_rmw_100
    [] w = UPSERT_100 -> ycsb_upsert_100
    [] w = READ_100 -> ycsb_read_100
    [] OTHER -> {}

\* Mutant: the switch has a case for every workload value.
KnownWorkload_any(w) == w >= 0

\* The values main's switch has a case for.
KnownWorkload(w) == w \in { A_50_50, RMW_100, UPSERT_100, READ_100 }

\* The bytes load_files counts from a file of `bytes` bytes read in blocks of
\* `block` bytes from `offset` on, until a short read.
RECURSIVE ReadLoop(_, _, _, _)
ReadLoop(bytes, block, offset, count) ==
  LET size == IF bytes - offset >= block THEN block
              ELSE IF bytes > offset THEN bytes - offset ELSE 0
  IN IF size = block THEN ReadLoop(bytes, block, offset + block, count + size)
     ELSE count + size

\* load_files' block size, scaled to keys of the build (131072 in the source).
kFileChunkSize == 16

\* The exit status of a process killed by a segmentation fault.
SIGSEGV == 139

\* Whether a read loop that copied `count` bytes wrote past the end of its
\* array of `keys` keys.
Overrun(count, keys) == count > keys * KeySize

\* load_files' two acceptance tests.
InitFileOk(count) == ~(geo.kInitCount # count \div 8)

TxnFileOk(count) == ~(geo.kTxnCount # count \div 8)

\* Mutant: the loop condition lets the chunk that starts at the corpus's end
\* through.
setup_in_range_inclusive(chunk) == chunk <= geo.kInitCount * 8

\* thread_setup_store's loop condition on a claimed chunk.
setup_in_range(chunk) == chunk < geo.kInitCount * 8

\* Mutant: the exhaustion test lets the chunk that starts at the corpus's end
\* through.
run_exhausted_late(chunk) == (chunk \div 8) > geo.kTxnCount

\* thread_run_benchmark's exhaustion test on a claimed chunk.
run_exhausted(chunk) == (chunk \div 8) >= geo.kTxnCount

\* Mutant: the inner loop runs one key past the chunk's end.
chunk_end_overrun(chunk) == chunk + geo.kChunkSize + 8

\* The end of the inner loop over a chunk's keys.
chunk_end(chunk) == chunk + geo.kChunkSize

\* The session maintenance thread_setup_store issues before the key at idx.
setup_maintenance(idx) ==
  IF idx % geo.kRefreshInterval = 0
  THEN << Call("refresh_session", FALSE, idx) >> \o
       (IF idx % geo.kCompletePendingInterval = 0
        THEN << Call("complete_pending", FALSE, idx) >>
        ELSE << >>)
  ELSE << >>

\* Mutant: the non-blocking drain is issued at every second interval only.
run_maintenance_drain_rarely(idx) ==
  IF idx % geo.kRefreshInterval = 0
  THEN << Call("refresh_session", FALSE, idx) >> \o
       (IF idx % (2 * geo.kCompletePendingInterval) = 0
        THEN << Call("complete_pending", FALSE, idx) >>
        ELSE << >>)
  ELSE << >>

\* Mutant: the non-blocking drain is issued with every refresh.
run_maintenance_drain_always(idx) ==
  IF idx % geo.kRefreshInterval = 0
  THEN << Call("refresh_session", FALSE, idx),
          Call("complete_pending", FALSE, idx) >>
  ELSE << >>

\* The session maintenance thread_run_benchmark issues before the key at idx.
run_maintenance(idx) ==
  IF idx % geo.kRefreshInterval = 0
  THEN << Call("refresh_session", FALSE, idx) >> \o
       (IF idx % geo.kCompletePendingInterval = 0
        THEN << Call("complete_pending", FALSE, idx) >>
        ELSE << >>)
  ELSE << >>

\* end_time - start_time of a thread whose session made the calls of `log`:
\* the clock is taken to advance by one unit per call of the engine.
Elapsed(log) == Len(log)

\* Mutant: every read-modify-write counts, whatever its status.
rmw_counts_always(status) == status >= 0

\* Whether a read-modify-write of the given status counts as a write.
rmw_counts(status) == status = 0

\* run_benchmark's throughput: a double, kept as the exact quotient
\* <<operations, duration>>, or NaN / Inf when the duration is zero.
Throughput(reads, writes, duration) ==
  IF duration = 0
  THEN (IF reads + writes = 0 THEN NaN ELSE Inf)
  ELSE << reads + writes, duration >>

\* std::map's operator[] used as an assignment target.
MapPut(m, k, v) == [x \in (DOMAIN m) \cup {k} |-> IF x = k THEN v ELSE m[x]]

\* A freshly started std::thread running `body` with the argument thread_idx.
NewThread(body, index) ==
  [NoThread EXCEPT !.body = body, !.thread_idx = index, !.pc = "start"]

\* exit(code): the process ends, every thread with it.
Exit(code) ==
  /\ exit_code' = code
  /\ pc' = "exited"


\* ------------------------------------------------------------------- main

\* main, lines 369-373: the argument count.
main_usage ==
  /\ exit_code = Running
  /\ pc = "main"
  /\ IF argc # kNumArgs + 1
     THEN Exit(0)
     ELSE pc' = "load_files" /\ UNCHANGED exit_code
  /\ UNCHANGED << engine_log, inputs, mainloop, store, shared, thread_idx, joined, thr >>

\* load_files: both key files are read in blocks and their lengths tested.
\* The read loops copy every byte of the file into an array of the expected
\* size without a bound: with a longer file they write past the array's end,
\* after which the process either goes on as written or is killed.
load_files ==
  /\ exit_code = Running
  /\ pc = "load_files"
  /\ LET init_count == ReadLoop(load_bytes, kFileChunkSize, 0, 0)
         txn_count == ReadLoop(run_bytes, kFileChunkSize, 0, 0)
         overrun == \/ Overrun(init_count, geo.kInitCount)
                    \/ (InitFileOk(init_count) /\ Overrun(txn_count, geo.kTxnCount))
     IN \/ IF ~InitFileOk(init_count)
           THEN Exit(1)
           ELSE IF ~TxnFileOk(txn_count)
           THEN Exit(1)
           ELSE pc' = "configurations" /\ UNCHANGED exit_code
        \/ overrun /\ Exit(SIGSEGV)
  /\ UNCHANGED << engine_log, inputs, mainloop, store, shared, thread_idx, joined, thr >>

\* main, lines 382-393: the thread configurations.
main_configurations ==
  /\ exit_code = Running
  /\ pc = "configurations"
  /\ thread_configurations' =
       IF num_threads = 0 THEN << 1, 2, 4, 8, 16, 32, 48 >> ELSE << num_threads >>
  /\ cfg_i' = 1
  /\ pc' = "for_configuration"
  /\ UNCHANGED << engine_log, inputs, exit_code, j, result, results_, store, shared,
                  thread_idx, joined, thr >>

\* main, lines 395-396: the head of the loop over the configurations.
main_for_configuration ==
  /\ exit_code = Running
  /\ pc = "for_configuration"
  /\ IF cfg_i <= Len(thread_configurations)
     THEN /\ results_' = MapPut(results_, num_threads, << >>)
          /\ j' = 0
          /\ pc' = "for_trial"
     ELSE /\ pc' = "print"
          /\ UNCHANGED << results_, j >>
  /\ UNCHANGED << engine_log, inputs, exit_code, thread_configurations, cfg_i, result, store,
                  shared, thread_idx, joined, thr >>

\* main, line 397: the head of the loop over the trials.
main_for_trial ==
  /\ exit_code = Running
  /\ pc = "for_trial"
  /\ IF j < kTrials
     THEN pc' = "open" /\ UNCHANGED cfg_i
     ELSE pc' = "for_configuration" /\ cfg_i' = cfg_i + 1
  /\ UNCHANGED << engine_log, inputs, exit_code, thread_configurations, j, result, results_,
                  store, shared, thread_idx, joined, thr >>

\* main, lines 398-399: faster_open_with_disk.
main_open_store ==
  /\ exit_code = Running
  /\ pc = "open"
  /\ store' = [open |-> TRUE, sessions |-> 0, storage |-> TRUE]
  /\ engine_log' = Append(engine_log, "faster_open_with_disk")
  /\ pc' = "setup_store"
  /\ UNCHANGED << inputs, exit_code, mainloop, shared, thread_idx, joined, thr >>

\* setup_store, line 254: the work index is reset.
setup_store_begin ==
  /\ exit_code = Running
  /\ pc = "setup_store"
  /\ idx_' = 0
  /\ thread_idx' = 0
  /\ engine_log' = Append(engine_log, "setup_store")
  /\ pc' = "setup_spawn"
  /\ UNCHANGED << inputs, exit_code, mainloop, store, threads_waiting_,
                  total_duration_, total_reads_done_, total_writes_done_, joined,
                  thr >>

\* setup_store, lines 256-258: one turn of the spawn loop.
setup_store_spawn ==
  /\ exit_code = Running
  /\ pc = "setup_spawn"
  /\ IF thread_idx < geo.kSetupThreads
     THEN /\ thr' = [thr EXCEPT ![thread_idx] = NewThread("thread_setup_store", thread_idx)]
          /\ thread_idx' = thread_idx + 1
          /\ UNCHANGED << pc, joined >>
     ELSE /\ pc' = "setup_join"
          /\ joined' = 0
          /\ UNCHANGED << thr, thread_idx >>
  /\ UNCHANGED << engine_log, inputs, exit_code, mainloop, store, shared >>

\* setup_store, lines 259-261: join of the next thread, which has ended.
setup_store_join ==
  /\ exit_code = Running
  /\ pc = "setup_join"
  /\ joined < thread_idx
  /\ thr[joined].pc = "done"
  /\ joined' = joined + 1
  /\ UNCHANGED << engine_log, inputs, pc, exit_code, mainloop, store, shared, thread_idx, thr >>

\* setup_store, lines 262-263: all joined; the threads are destroyed.
setup_store_return ==
  /\ exit_code = Running
  /\ pc = "setup_join"
  /\ joined = thread_idx
  /\ thr' = [t \in Threads |-> NoThread]
  /\ pc' = "dispatch"
  /\ UNCHANGED << engine_log, inputs, exit_code, mainloop, store, shared, thread_idx, joined >>

\* Mutant: run_benchmark does not reset the three accumulators.
main_dispatch_accumulating ==
  /\ exit_code = Running
  /\ pc = "dispatch"
  /\ IF KnownWorkload(workload)
     THEN /\ idx_' = 0
          /\ threads_waiting_' = num_threads
          /\ thread_idx' = 0
          /\ engine_log' = Append(engine_log, "run_benchmark")
          /\ pc' = "run_spawn"
          /\ UNCHANGED << exit_code, total_duration_, total_reads_done_,
                          total_writes_done_ >>
     ELSE /\ Exit(1)
          /\ UNCHANGED << shared, thread_idx, engine_log >>
  /\ UNCHANGED << inputs, mainloop, store, joined, thr >>

\* main, lines 404-425, and run_benchmark, lines 341-346: the switch over the
\* workload; a known workload enters run_benchmark, which resets the shared
\* counters, and any other value ends the process.
main_dispatch ==
  /\ exit_code = Running
  /\ pc = "dispatch"
  /\ IF KnownWorkload(workload)
     THEN /\ idx_' = 0
          /\ total_duration_' = 0
          /\ total_reads_done_' = 0
          /\ total_writes_done_' = 0
          /\ threads_waiting_' = num_threads
          /\ thread_idx' = 0
          /\ engine_log' = Append(engine_log, "run_benchmark")
          /\ pc' = "run_spawn"
          /\ UNCHANGED exit_code
     ELSE /\ Exit(1)
          /\ UNCHANGED << shared, thread_idx, engine_log >>
  /\ UNCHANGED << inputs, mainloop, store, joined, thr >>

\* run_benchmark, lines 347-349: one turn of the spawn loop.
run_benchmark_spawn ==
  /\ exit_code = Running
  /\ pc = "run_spawn"
  /\ IF thread_idx < num_threads
     THEN /\ thr' = [thr EXCEPT ![thread_idx] = NewThread("thread_run_benchmark", thread_idx)]
          /\ thread_idx' = thread_idx + 1
          /\ UNCHANGED << pc, joined >>
     ELSE /\ pc' = "run_poll"
          /\ joined' = 0
          /\ UNCHANGED << thr, thread_idx >>
  /\ UNCHANGED << engine_log, inputs, exit_code, mainloop, store, shared >>

\* Mutant: the poll stops waiting while one thread is still counted.
run_benchmark_poll_early ==
  /\ exit_code = Running
  /\ pc = "run_poll"
  /\ pc' = IF threads_waiting_ > 1 THEN "run_poll" ELSE "run_join"
  /\ UNCHANGED << engine_log, inputs, exit_code, mainloop, store, shared, thread_idx, joined,
                  thr >>

\* run_benchmark, lines 352-354: one sleep and one load of threads_waiting_.
run_benchmark_poll ==
  /\ exit_code = Running
  /\ pc = "run_poll"
  /\ pc' = IF threads_waiting_ > 0 THEN "run_poll" ELSE "run_join"
  /\ UNCHANGED << engine_log, inputs, exit_code, mainloop, store, shared, thread_idx, joined,
                  thr >>

\* Mutant: the thread is detached instead of joined: main does not wait for it.
run_benchmark_join_detached ==
  /\ exit_code = Running
  /\ pc = "run_join"
  /\ joined < thread_idx
  /\ joined' = joined + 1
  /\ UNCHANGED << engine_log, inputs, pc, exit_code, mainloop, store, shared, thread_idx, thr >>

\* run_benchmark, lines 356-358: join of the next thread, which has ended.
run_benchmark_join ==
  /\ exit_code = Running
  /\ pc = "run_join"
  /\ joined < thread_idx
  /\ thr[joined].pc = "done"
  /\ joined' = joined + 1
  /\ UNCHANGED << engine_log, inputs, pc, exit_code, mainloop, store, shared, thread_idx, thr >>

\* run_benchmark, lines 360-366: the throughput is computed and returned.
run_benchmark_return ==
  /\ exit_code = Running
  /\ pc = "run_join"
  /\ joined = thread_idx
  /\ result' = Throughput(total_reads_done_, total_writes_done_, total_duration_)
  /\ thr' = [t \in Threads |-> NoThread]
  /\ pc' = "destroy"
  /\ UNCHANGED << engine_log, inputs, exit_code, thread_configurations, cfg_i, j, results_,
                  store, shared, thread_idx, joined >>

\* main, lines 427-428: faster_destroy and the removal of the storage.
main_destroy ==
  /\ exit_code = Running
  /\ pc = "destroy"
  /\ store' = NoStore
  /\ engine_log' = engine_log \o << "faster_destroy", "remove_all" >>
  /\ pc' = "record"
  /\ UNCHANGED << inputs, exit_code, mainloop, shared, thread_idx, joined, thr >>

\* main, lines 429-431: the sample is appended to the table.
main_record ==
  /\ exit_code = Running
  /\ pc = "record"
  /\ results_' = MapPut(results_, num_threads, Append(results_[num_threads], result))
  /\ j' = j + 1
  /\ engine_log' = Append(engine_log, "push_back")
  /\ pc' = "for_trial"
  /\ UNCHANGED << inputs, exit_code, thread_configurations, cfg_i, result, store,
                  shared, thread_idx, joined, thr >>

\* main, lines 434-439: the table is printed and main returns 0.
main_return ==
  /\ exit_code = Running
  /\ pc = "print"
  /\ Exit(0)
  /\ UNCHANGED << engine_log, inputs, mainloop, store, shared, thread_idx, joined, thr >>


\* ------------------------------------------------------ thread_setup_store

\* Lines 228-230: the thread pins itself and starts its session.
setup_start(t) ==
  /\ exit_code = Running
  /\ thr[t].body = "thread_setup_store"
  /\ thr[t].pc = "start"
  /\ thr' = [thr EXCEPT ![t].cpu = SetThreadAffinity(thr[t].thread_idx),
                        ![t].log = Append(@, Call("start_session", FALSE, 0)),
                        ![t].pc = "fetch"]
  /\ store' = [store EXCEPT !.sessions = @ + 1]
  /\ UNCHANGED << engine_log, inputs, pc, exit_code, mainloop, shared, thread_idx, joined >>

\* Lines 233-234: idx_.fetch_add(kChunkSize) and the loop condition.
setup_fetch(t) ==
  /\ exit_code = Running
  /\ thr[t].body = "thread_setup_store"
  /\ thr[t].pc = "fetch"
  /\ idx_' = idx_ + geo.kChunkSize
  /\ thr' = IF setup_in_range(idx_)
            THEN [thr EXCEPT ![t].chunk_idx = idx_, ![t].idx = idx_,
                             ![t].pc = "item"]
            ELSE [thr EXCEPT ![t].chunk_idx = idx_, ![t].pc = "drain"]
  /\ UNCHANGED << engine_log, inputs, pc, exit_code, mainloop, store, threads_waiting_,
                  total_duration_, total_reads_done_, total_writes_done_,
                  thread_idx, joined >>

\* Lines 235-246: one key of the chunk: the maintenance calls, then the upsert.
setup_item(t) ==
  /\ exit_code = Running
  /\ thr[t].body = "thread_setup_store"
  /\ thr[t].pc = "item"
  /\ LET idx == thr[t].idx
     IN thr' = [thr EXCEPT
                  ![t].log = @ \o setup_maintenance(idx)
                               \o << Call("upsert", FALSE, idx) >>,
                  ![t].idx = idx + 8,
                  ![t].pc = IF idx + 8 < chunk_end(thr[t].chunk_idx)
                            THEN "item" ELSE "fetch"]
  /\ UNCHANGED << engine_log, inputs, pc, exit_code, mainloop, store, shared, thread_idx,
                  joined >>

\* Line 249: faster_complete_pending(store, true).
setup_drain(t) ==
  /\ exit_code = Running
  /\ thr[t].body = "thread_setup_store"
  /\ thr[t].pc = "drain"
  /\ thr' = [thr EXCEPT
               ![t].log = Append(@, Call("complete_pending", TRUE, thr[t].idx)),
               ![t].pc = "stop"]
  /\ UNCHANGED << engine_log, inputs, pc, exit_code, mainloop, store, shared, thread_idx,
                  joined >>

\* Lines 250-251: faster_stop_session; the thread ends.
setup_stop(t) ==
  /\ exit_code = Running
  /\ thr[t].body = "thread_setup_store"
  /\ thr[t].pc = "stop"
  /\ thr' = [thr EXCEPT
               ![t].log = Append(@, Call("stop_session", FALSE, thr[t].idx)),
               ![t].pc = "done"]
  /\ store' = [store EXCEPT !.sessions = @ - 1]
  /\ UNCHANGED << engine_log, inputs, pc, exit_code, mainloop, shared, thread_idx, joined >>

\* ---------------------------------------------------- thread_run_benchmark

\* Lines 271-282: the thread pins itself, reads the clock, zeroes its
\* counters and starts its session.
run_start(t) ==
  /\ exit_code = Running
  /\ thr[t].body = "thread_run_benchmark"
  /\ thr[t].pc = "start"
  /\ thr' = [thr EXCEPT ![t].cpu = SetThreadAffinity(thr[t].thread_idx),
                        ![t].reads_done = 0,
                        ![t].writes_done = 0,
                        ![t].log = Append(@, Call("start_session", FALSE, 0)),
                        ![t].pc = "fetch"]
  /\ store' = [store EXCEPT !.sessions = @ + 1]
  /\ UNCHANGED << engine_log, inputs, pc, exit_code, mainloop, shared, thread_idx, joined >>

\* Lines 285-286: idx_.fetch_add(kChunkSize) and the exhaustion test.
run_fetch(t) ==
  /\ exit_code = Running
  /\ thr[t].body = "thread_run_benchmark"
  /\ thr[t].pc = "fetch"
  /\ idx_' = idx_ + geo.kChunkSize
  /\ thr' = IF run_exhausted(idx_)
            THEN [thr EXCEPT ![t].chunk_idx = idx_, ![t].pc = "exhausted"]
            ELSE [thr EXCEPT ![t].chunk_idx = idx_, ![t].idx = idx_,
                             ![t].pc = "item"]
  /\ UNCHANGED << engine_log, inputs, pc, exit_code, mainloop, store, threads_waiting_,
                  total_duration_, total_reads_done_, total_writes_done_,
                  thread_idx, joined >>

\* Mutant: the loop is left without the fetch_sub.
run_exhaust_uncounted(t) ==
  /\ exit_code = Running
  /\ thr[t].body = "thread_run_benchmark"
  /\ thr[t].pc = "exhausted"
  /\ thr' = [thr EXCEPT ![t].pc = "drain"]
  /\ UNCHANGED << engine_log, inputs, pc, exit_code, mainloop, store, shared, thread_idx,
                  joined >>

\* Mutant: the break is missing: after the fetch_sub the loop goes on.
run_exhaust_unbroken(t) ==
  /\ exit_code = Running
  /\ thr[t].body = "thread_run_benchmark"
  /\ thr[t].pc = "exhausted"
  /\ threads_waiting_' = (threads_waiting_ - 1) % SizeModulus
  /\ thr' = [thr EXCEPT ![t].pc = "fetch"]
  /\ UNCHANGED << engine_log, inputs, pc, exit_code, mainloop, store, idx_, total_duration_,
                  total_reads_done_, total_writes_done_, thread_idx, joined >>

\* Lines 287-288: threads_waiting_.fetch_sub(1), then the loop is left.
run_exhaust(t) ==
  /\ exit_code = Running
  /\ thr[t].body = "thread_run_benchmark"
  /\ thr[t].pc = "exhausted"
  /\ threads_waiting_' = (threads_waiting_ - 1) % SizeModulus
  /\ thr' = [thr EXCEPT ![t].pc = "drain"]
  /\ UNCHANGED << engine_log, inputs, pc, exit_code, mainloop, store, idx_, total_duration_,
                  total_reads_done_, total_writes_done_, thread_idx, joined >>

\* Mutant: a Scan is skipped: the loop goes on to the next key.
run_item_scan_skipped(t, before) ==
  /\ thr' = [thr EXCEPT
               ![t].op = Op_Scan,
               ![t].log = before,
               ![t].idx = @ + 8,
               ![t].pc = IF thr[t].idx + 8 < chunk_end(thr[t].chunk_idx)
                         THEN "item" ELSE "fetch"]
  /\ UNCHANGED << pc, exit_code >>

\* Lines 306-309: case Op::Scan, reached after the maintenance calls `before`.
run_item_scan(t, before) ==
  /\ thr' = [thr EXCEPT ![t].op = Op_Scan, ![t].log = before]
  /\ Exit(1)

\* Lines 290-324 for a template argument FN that returns one of `ops`: one
\* key of the chunk: the maintenance calls, then the operation FN(rng) selects.
run_item_fn(t, ops) ==
  /\ exit_code = Running
  /\ thr[t].body = "thread_run_benchmark"
  /\ thr[t].pc = "item"
  /\ \E op \in ops :
     \E status \in (IF op = Op_ReadModifyWrite THEN 0..MaxStatus ELSE {thr[t].status}) :
       LET idx == thr[t].idx
           before == thr[t].log \o run_maintenance(idx)
           next == IF idx + 8 < chunk_end(thr[t].chunk_idx) THEN "item" ELSE "fetch"
       IN CASE op \in { Op_Insert, Op_Upsert } ->
                 /\ thr' = [thr EXCEPT
                              ![t].op = op,
                              ![t].log = Append(before, Call("upsert", FALSE, idx)),
                              ![t].writes_done = @ + 1,
                              ![t].idx = idx + 8,
                              ![t].pc = next]
                 /\ UNCHANGED << pc, exit_code >>
            [] op = Op_Scan -> run_item_scan(t, before)
            [] op = Op_Read ->
                 /\ thr' = [thr EXCEPT
                              ![t].op = op,
                              ![t].log = Append(before, Call("read", FALSE, idx)),
                              ![t].reads_done = @ + 1,
                              ![t].idx = idx + 8,
                              ![t].pc = next]
                 /\ UNCHANGED << pc, exit_code >>
            [] op = Op_ReadModifyWrite ->
                 /\ thr' = [thr EXCEPT
                              ![t].op = op,
                              ![t].log = Append(before, Call("rmw", FALSE, idx)),
                              ![t].status = status,
                              ![t].writes_done =
                                 IF rmw_counts(status) THEN @ + 1 ELSE @,
                              ![t].idx = idx + 8,
                              ![t].pc = next]
                 /\ UNCHANGED << pc, exit_code >>
  /\ UNCHANGED << engine_log, inputs, mainloop, store, shared, thread_idx, joined >>

\* Lines 290-324 as main instantiates them: FN is the mixer of the workload.
run_item(t) == run_item_fn(t, FN(workload))

\* Mutant: the terminal drain does not wait.
run_drain_nonblocking(t) ==
  /\ exit_code = Running
  /\ thr[t].body = "thread_run_benchmark"
  /\ thr[t].pc = "drain"
  /\ thr' = [thr EXCEPT
               ![t].log = Append(@, Call("complete_pending", FALSE, thr[t].idx)),
               ![t].pc = "stop"]
  /\ UNCHANGED << engine_log, inputs, pc, exit_code, mainloop, store, shared, thread_idx,
                  joined >>

\* Line 327: faster_complete_pending(store, true).
run_drain(t) ==
  /\ exit_code = Running
  /\ thr[t].body = "thread_run_benchmark"
  /\ thr[t].pc = "drain"
  /\ thr' = [thr EXCEPT
               ![t].log = Append(@, Call("complete_pending", TRUE, thr[t].idx)),
               ![t].pc = "stop"]
  /\ UNCHANGED << engine_log, inputs, pc, exit_code, mainloop, store, shared, thread_idx,
                  joined >>

\* Lines 328-331: faster_stop_session, then the clock is read again.
run_stop(t) ==
  /\ exit_code = Running
  /\ thr[t].body = "thread_run_benchmark"
  /\ thr[t].pc = "stop"
  /\ LET log == Append(thr[t].log, Call("stop_session", FALSE, thr[t].idx))
     IN thr' = [thr EXCEPT ![t].log = log,
                           ![t].duration = Elapsed(log),
                           ![t].pc = "publish_duration"]
  /\ store' = [store EXCEPT !.sessions = @ - 1]
  /\ UNCHANGED << engine_log, inputs, pc, exit_code, mainloop, shared, thread_idx, joined >>

\* Line 332: total_duration_ += duration.count().
run_publish_duration(t) ==
  /\ exit_code = Running
  /\ thr[t].body = "thread_run_benchmark"
  /\ thr[t].pc = "publish_duration"
  /\ total_duration_' = total_duration_ + thr[t].duration
  /\ thr' = [thr EXCEPT ![t].pc = "publish_reads"]
  /\ UNCHANGED << engine_log, inputs, pc, exit_code, mainloop, store, idx_, threads_waiting_,
                  total_reads_done_, total_writes_done_, thread_idx, joined >>

\* Mutant: the reads are added to the write accumulator.
run_publish_reads_as_writes(t) ==
  /\ exit_code = Running
  /\ thr[t].body = "thread_run_benchmark"
  /\ thr[t].pc = "publish_reads"
  /\ total_writes_done_' = total_writes_done_ + thr[t].reads_done
  /\ thr' = [thr EXCEPT ![t].pc = "publish_writes"]
  /\ UNCHANGED << engine_log, inputs, pc, exit_code, mainloop, store, idx_, threads_waiting_,
                  total_duration_, total_reads_done_, thread_idx, joined >>

\* Line 333: total_reads_done_ += reads_done.
run_publish_reads(t) ==
  /\ exit_code = Running
  /\ thr[t].body = "thread_run_benchmark"
  /\ thr[t].pc = "publish_reads"
  /\ total_reads_done_' = total_reads_done_ + thr[t].reads_done
  /\ thr' = [thr EXCEPT ![t].pc = "publish_writes"]
  /\ UNCHANGED << engine_log, inputs, pc, exit_code, mainloop, store, idx_, threads_waiting_,
                  total_duration_, total_writes_done_, thread_idx, joined >>

\* Lines 334-337: total_writes_done_ += writes_done; the thread ends.
run_publish_writes(t) ==
  /\ exit_code = Running
  /\ thr[t].body = "thread_run_benchmark"
  /\ thr[t].pc = "publish_writes"
  /\ total_writes_done_' = total_writes_done_ + thr[t].writes_done
  /\ thr' = [thr EXCEPT ![t].pc = "done"]
  /\ UNCHANGED << engine_log, inputs, pc, exit_code, mainloop, store, idx_, threads_waiting_,
                  total_duration_, total_reads_done_, thread_idx, joined >>

\* ---------------------------------------------------------- specifications

\* The sizes a key file of `count` expected keys is given: exact, or one key short.
FileSizes(count) == { count * KeySize, (count - 1) * KeySize }

\* The runs that are explored: the work of a phase is bounded, and so is the
\* corpus of a workload whose outcome varies per key; the population phase is
\* given as many threads as the measurement phase is asked for (one if none).
Explored(g, w, n) ==
  /\ (w \in { A_50_50, RMW_100 } => g.kTxnCount <= MaxRandomKeys)
  /\ g.kTxnCount * n <= MaxWork
  /\ g.kInitCount * g.kSetupThreads <= MaxWork
  /\ g.kSetupThreads = (IF n = 0 THEN 1 ELSE n)

\* The start of the process: the statics hold their initialisers.
Init ==
  /\ geo \in MainGeometries
  /\ argc \in { kNumArgs, kNumArgs + 1 }
  /\ workload \in 0..4
  /\ num_threads \in 0..MaxMainThreads
  /\ load_bytes \in FileSizes(geo.kInitCount)
  /\ run_bytes \in FileSizes(geo.kTxnCount)
  /\ Explored(geo, workload, num_threads)
  /\ pc = "main"
  /\ exit_code = Running
  /\ thread_configurations = << >>
  /\ cfg_i = 0
  /\ j = 0
  /\ store = NoStore
  /\ idx_ = 0
  /\ threads_waiting_ = 0
  /\ total_duration_ = 0
  /\ total_reads_done_ = 0
  /\ total_writes_done_ = 0
  /\ thread_idx = 0
  /\ joined = 0
  /\ thr = [t \in Threads |-> NoThread]
  /\ result = NaN
  /\ results_ = << >>
  /\ engine_log = << >>

ThreadStep(t) ==
  \/ setup_start(t)
  \/ setup_fetch(t)
  \/ setup_item(t)
  \/ setup_drain(t)
  \/ setup_stop(t)
  \/ run_start(t)
  \/ run_fetch(t)
  \/ run_exhaust(t)
  \/ run_item(t)
  \/ run_drain(t)
  \/ run_stop(t)
  \/ run_publish_duration(t)
  \/ run_publish_reads(t)
  \/ run_publish_writes(t)

\* The steps of the main thread within one trial.
MainStep ==
  \/ main_open_store
  \/ setup_store_begin
  \/ setup_store_spawn
  \/ setup_store_join
  \/ setup_store_return
  \/ main_dispatch
  \/ run_benchmark_spawn
  \/ run_benchmark_poll
  \/ run_benchmark_join
  \/ run_benchmark_return
  \/ main_destroy
  \/ main_record

TrialStep ==
  \/ MainStep
  \/ \E t \in Threads : ThreadStep(t)

Next ==
  \/ main_usage
  \/ load_files
  \/ main_configurations
  \/ main_for_configuration
  \/ main_for_trial
  \/ main_return
  \/ TrialStep

\* The whole program.
Spec == Init /\ [][Next]_vars

\* The first trial of a run of one of the builds G whose arguments and key
\* files were accepted: main has reached line 398 with j = 0 in the first
\* configuration.
TrialInitOf(G) ==
  /\ geo \in G
  /\ argc = kNumArgs + 1
  /\ workload \in 0..4
  /\ num_threads \in 0..MaxThreads
  /\ load_bytes = geo.kInitCount * KeySize
  /\ run_bytes = geo.kTxnCount * KeySize
  /\ Explored(geo, workload, num_threads)
  /\ pc = "open"
  /\ exit_code = Running
  /\ thread_configurations =
       IF num_threads = 0 THEN << 1, 2, 4, 8, 16, 32, 48 >> ELSE << num_threads >>
  /\ cfg_i = 1
  /\ j = 0
  /\ store = NoStore
  /\ idx_ = 0
  /\ threads_waiting_ = 0
  /\ total_duration_ = 0
  /\ total_reads_done_ = 0
  /\ total_writes_done_ = 0
  /\ thread_idx = 0
  /\ joined = 0
  /\ thr = [t \in Threads |-> NoThread]
  /\ result = NaN
  /\ results_ = MapPut(<< >>, num_threads, << >>)
  /\ engine_log = << >>

TrialInit == TrialInitOf(TrialGeometries)

\* One trial: open, populate, measure, destroy, record.
SpecTrial == TrialInit /\ [][TrialStep]_vars

\* Largest product of a corpus's keys and the threads working on it that is
\* explored under fairness.
MaxFairWork == 4

\* The first trial of a run whose phases stay within MaxFairWork.
FairInit ==
  /\ TrialInit
  /\ geo.kInitCount * geo.kSetupThreads <= MaxFairWork
  /\ geo.kTxnCount * num_threads <= MaxFairWork

\* One trial under a fair scheduler and an engine whose calls return: the
\* main thread and every spawned thread keep taking their steps.
SpecTrialFair ==
  /\ FairInit
  /\ [][TrialStep]_vars
  /\ WF_vars(MainStep)
  /\ \A t \in Threads : WF_vars(ThreadStep(t))

\* One trial of a build with three chunks per corpus, or with two drains per
\* chunk as in the source (kChunkSize = 2 * kCompletePendingInterval).
SpecPressure == TrialInitOf(PressureGeometries) /\ [][TrialStep]_vars

\* Two of the kPopulationThreads threads of a population phase, freshly
\* spawned: main has left setup_store's spawn loop and waits in its first join.
AffinityInit ==
  /\ geo \in MainGeometries
  /\ argc = kNumArgs + 1
  /\ workload = UPSERT_100
  /\ num_threads = 1
  /\ load_bytes = geo.kInitCount * KeySize
  /\ run_bytes = geo.kTxnCount * KeySize
  /\ pc = "setup_join"
  /\ exit_code = Running
  /\ thread_configurations = << num_threads >>
  /\ cfg_i = 1
  /\ j = 0
  /\ store = [open |-> TRUE, sessions |-> 0, storage |-> TRUE]
  /\ idx_ = 0
  /\ threads_waiting_ = 0
  /\ total_duration_ = 0
  /\ total_reads_done_ = 0
  /\ total_writes_done_ = 0
  /\ thread_idx = kPopulationThreads
  /\ joined = 0
  /\ \E a, b \in 0 .. (kPopulationThreads - 1) :
       /\ a < b
       /\ thr = [t \in Threads |->
                   IF t = 0 THEN NewThread("thread_setup_store", a)
                   ELSE IF t = 1 THEN NewThread("thread_setup_store", b)
                   ELSE NoThread]
  /\ result = NaN
  /\ results_ = MapPut(<< >>, num_threads, << >>)
  /\ engine_log = << "faster_open_with_disk", "setup_store" >>

\* The two threads pin themselves and start their sessions.
AffinityStep == \E t \in Threads : setup_start(t)

SpecAffinity == AffinityInit /\ [][AffinityStep]_vars

\* One trial in which thread_run_benchmark is instantiated with a mixer that
\* returns what the workload's mixer returns, or Op::Scan.
ScanStep ==
  \/ TrialStep
  \/ \E t \in Threads : run_item_fn(t, { Op_Scan })

SpecScan == TrialInit /\ [][ScanStep]_vars

\* Largest key file, in bytes, that the specification of the file loader
\* explores.
MaxFileBytes == 34

\* The start of a process with four arguments, a known workload and key files
\* of any length.
LoadInit ==
  /\ geo \in MainGeometries
  /\ argc = kNumArgs + 1
  /\ workload = UPSERT_100
  /\ num_threads = 1
  /\ load_bytes \in 0 .. MaxFileBytes
  /\ run_bytes \in 0 .. MaxFileBytes
  /\ Explored(geo, workload, num_threads)
  /\ pc = "main"
  /\ exit_code = Running
  /\ thread_configurations = << >>
  /\ cfg_i = 0
  /\ j = 0
  /\ store = NoStore
  /\ idx_ = 0
  /\ threads_waiting_ = 0
  /\ total_duration_ = 0
  /\ total_reads_done_ = 0
  /\ total_writes_done_ = 0
  /\ thread_idx = 0
  /\ joined = 0
  /\ thr = [t \in Threads |-> NoThread]
  /\ result = NaN
  /\ results_ = << >>
  /\ engine_log = << >>

\* The whole program, started on key files of any length.
SpecLoad == LoadInit /\ [][Next]_vars


\* ---------------------------------------------------- vocabulary of claims

DataCalls == { "upsert", "read", "rmw" }

\* The threads spawned in the current phase.
Spawned == { t \in Threads : thr[t].body # "none" }

SetupPhase == \E t \in Threads : thr[t].body = "thread_setup_store"

RunPhase == pc \in { "run_spawn", "run_poll", "run_join" }

\* Every thread of the phase has been spawned and has ended.
SetupDone ==
  /\ pc = "setup_join"
  /\ \A t \in 0 .. (thread_idx - 1) : thr[t].pc = "done"

RunDone ==
  /\ pc \in { "run_poll", "run_join" }
  /\ \A t \in 0 .. (thread_idx - 1) : thr[t].pc = "done"

\* The positions of thread t's data operations, and the key offsets they hit.
DataAt(t) == { p \in 1 .. Len(thr[t].log) : thr[t].log[p].call \in DataCalls }

Offsets(t) == { thr[t].log[p].at : p \in DataAt(t) }

\* The chunks thread t has claimed and entered, as key ranges <<first, end>>.
Chunks(t) ==
  { << o \div KeySize, (o + geo.kChunkSize) \div KeySize >> :
      o \in { x \in Offsets(t) : x % geo.kChunkSize = 0 } }

\* The corpus of the current phase, in keys.
CorpusKeys == IF SetupPhase THEN geo.kInitCount ELSE geo.kTxnCount

RECURSIVE Sum(_, _)
Sum(f, S) ==
  IF S = {} THEN 0
  ELSE LET x == CHOOSE y \in S : TRUE IN f[x] + Sum(f, S \ {x})

Count(t, name) ==
  Cardinality({ p \in 1 .. Len(thr[t].log) : thr[t].log[p].call = name })

\* ------------------------------------------------------------------ claims

\* C1: in one phase with W >= 1 workers the key offsets the workers process
\* partition [0, L): every processed offset is a key of the corpus, no offset
\* is processed by two workers or twice by one worker, and once every worker
\* has ended every key of the corpus has been processed.
C1_ChunksPartitionCorpus ==
  /\ \A t \in Spawned :
       /\ \A p \in DataAt(t) :
            /\ thr[t].log[p].at % KeySize = 0
            /\ thr[t].log[p].at \div KeySize \in 0 .. (CorpusKeys - 1)
       /\ \A p, q \in DataAt(t) :
            p # q => thr[t].log[p].at # thr[t].log[q].at
  /\ \A t, u \in Spawned : t # u => Offsets(t) \cap Offsets(u) = {}
  /\ ((SetupDone \/ RunDone) /\ thread_idx >= 1) =>
       UNION { Offsets(t) : t \in Spawned } =
         { k * KeySize : k \in 0 .. (CorpusKeys - 1) }

\* Both threads of a measurement phase have ended and each processed keys.
C1_Witness ==
  /\ RunDone
  /\ thread_idx = 2
  /\ Offsets(0) # {}
  /\ Offsets(1) # {}

\* The build of the scenario: 16 keys per corpus in chunks of 8, 2 workers.
C2_Scenario ==
  /\ geo.kTxnCount = 16
  /\ geo.kInitCount = 16
  /\ geo.kChunkSize = 8 * KeySize
  /\ num_threads = 2
  /\ geo.kSetupThreads = 2

\* C2 as stated: in the scenario, once both workers of a phase have ended,
\* each of them has received exactly one chunk, [0,8) or [8,16).
C2_EachWorkerOneChunk ==
  (C2_Scenario /\ (SetupDone \/ RunDone) /\ thread_idx = 2) =>
    \/ Chunks(0) = { << 0, 8 >> } /\ Chunks(1) = { << 8, 16 >> }
    \/ Chunks(0) = { << 8, 16 >> } /\ Chunks(1) = { << 0, 8 >> }

\* C2 as amended: in the scenario the chunks [0,8) and [8,16) are each claimed
\* exactly once, one by each worker or both by the same worker; a request that
\* returns a later chunk start is exhausted, and its worker requests no more.
C2_TwoChunksThenExhaustion ==
  C2_Scenario =>
    /\ \A t \in Spawned : Chunks(t) \subseteq { << 0, 8 >>, << 8, 16 >> }
    /\ \A t, u \in Spawned : t # u => Chunks(t) \cap Chunks(u) = {}
    /\ \A t \in Spawned :
         thr[t].chunk_idx >= 16 * KeySize =>
           thr[t].pc \notin { "start", "fetch", "item" }
    /\ \A t \in Spawned :
         thr[t].pc = "item" => thr[t].chunk_idx \in { 0, 8 * KeySize }
    /\ ((SetupDone \/ RunDone) /\ thread_idx = 2) =>
         Chunks(0) \cup Chunks(1) = { << 0, 8 >>, << 8, 16 >> }

\* One worker of the scenario's measurement phase received both chunks.
C2_Witness ==
  /\ C2_Scenario
  /\ RunDone
  /\ thread_idx = 2
  /\ \E t \in { 0, 1 } : Chunks(t) = { << 0, 8 >>, << 8, 16 >> }


IsBlockingDrain(c) == c.call = "complete_pending" /\ c.wait

IsMaintenance(c) == c.call \in { "refresh_session", "complete_pending" }

\* C3: every worker of either phase, also one that obtains no chunk, makes its
\* engine calls in the order start_session, then data operations, refreshes
\* and non-blocking drains, then one blocking drain, then stop_session: the
\* session is started before the first chunk request, the blocking drain is
\* issued only after exhaustion was observed, and nothing follows the stop.
C3_SessionProtocol ==
  /\ \A t \in Spawned :
       LET log == thr[t].log
           n == Len(log)
       IN /\ (thr[t].pc = "start") <=> (n = 0)
          /\ \A p \in 1 .. n :
               /\ (log[p].call = "start_session") <=> (p = 1)
               /\ log[p].call = "stop_session" =>
                    p = n /\ p >= 3 /\ IsBlockingDrain(log[p - 1])
               /\ IsBlockingDrain(log[p]) =>
                    /\ p = n \/ (p = n - 1 /\ log[n].call = "stop_session")
                    /\ thr[t].chunk_idx >= CorpusKeys * KeySize
                    /\ \A q \in DataAt(t) : q < p
          /\ thr[t].pc \in { "fetch", "exhausted", "item", "drain" } =>
               \A p \in 1 .. n :
                 ~IsBlockingDrain(log[p]) /\ log[p].call # "stop_session"
          /\ thr[t].pc = "stop" => IsBlockingDrain(log[n])
          /\ thr[t].pc \in { "publish_duration", "publish_reads",
                             "publish_writes", "done" } =>
               log[n].call = "stop_session"
  /\ store.sessions =
       Cardinality({ t \in Spawned :
                       /\ thr[t].log # << >>
                       /\ thr[t].log[Len(thr[t].log)].call # "stop_session" })

\* A measurement worker ended without a chunk while the other processed all.
C3_Witness ==
  /\ RunDone
  /\ thread_idx = 2
  /\ Offsets(0) # {}
  /\ thr[1].log = << Call("start_session", FALSE, 0),
                     Call("complete_pending", TRUE, 0),
                     Call("stop_session", FALSE, 0) >>

\* The build of the scenario: chunks of 16 keys, refresh every 8 keys,
\* non-blocking drain every 16 keys.
C4_Scenario ==
  /\ geo.kChunkSize = 16 * KeySize
  /\ geo.kRefreshInterval = 8 * KeySize
  /\ geo.kCompletePendingInterval = 16 * KeySize

\* The key offsets, relative to the chunk <<a, b>>, at which thread t issued
\* the maintenance call `name`.
MaintenanceIn(t, name, a, b) ==
  { thr[t].log[p].at \div KeySize - a :
      p \in { q \in 1 .. Len(thr[t].log) :
                /\ thr[t].log[q].call = name
                /\ thr[t].log[q].at \div KeySize \in a .. (b - 1) } }

\* C4: in both phases the calls a worker makes directly before the data
\* operation on key i are a refresh exactly when i is a multiple of the
\* refresh interval, followed by a non-blocking drain exactly when i is a
\* multiple of the complete-pending interval; in the scenario's build a wholly
\* processed chunk has its refreshes at offsets 0 and 8 and its only
\* non-blocking drain at offset 0.
C4_MaintenanceCadence ==
  /\ \A t \in Spawned : \A p \in DataAt(t) :
       LET log == thr[t].log
           at == log[p].at
           i == at \div KeySize
           r == i % (geo.kRefreshInterval \div KeySize) = 0
           c == i % (geo.kCompletePendingInterval \div KeySize) = 0
       IN /\ c => /\ p >= 4
                  /\ log[p - 1] = Call("complete_pending", FALSE, at)
                  /\ log[p - 2] = Call("refresh_session", FALSE, at)
                  /\ ~IsMaintenance(log[p - 3])
          /\ (r /\ ~c) => /\ p >= 3
                          /\ log[p - 1] = Call("refresh_session", FALSE, at)
                          /\ ~IsMaintenance(log[p - 2])
          /\ (~r /\ ~c) => ~IsMaintenance(log[p - 1])
  /\ C4_Scenario =>
       \A t \in Spawned : \A ch \in Chunks(t) :
         (ch[2] - 1) * KeySize \in Offsets(t) =>
           /\ MaintenanceIn(t, "refresh_session", ch[1], ch[2]) = { 0, 8 }
           /\ MaintenanceIn(t, "complete_pending", ch[1], ch[2]) = { 0 }
           /\ Cardinality({ q \in 1 .. Len(thr[t].log) :
                              /\ IsMaintenance(thr[t].log[q])
                              /\ thr[t].log[q].at \div KeySize \in
                                   ch[1] .. (ch[2] - 1) }) = 3

\* A measurement worker of the scenario's build has processed two whole chunks.
C4_Witness ==
  /\ C4_Scenario
  /\ RunPhase
  /\ \E t \in Spawned : Cardinality(Offsets(t)) = 32

\* C5: a read-modify-write of the measurement phase adds one to the worker's
\* writes_done when the engine's status is 0 and leaves it unchanged for any
\* other status; it never changes reads_done, and the worker goes on to the
\* next key either way.
C5_RmwCountsOnlyOnSuccess ==
  [][ \A t \in Threads :
        ( /\ Len(thr'[t].log) > Len(thr[t].log)
          /\ thr'[t].log[Len(thr'[t].log)].call = "rmw" ) =>
          /\ thr'[t].status = 0 => thr'[t].writes_done = thr[t].writes_done + 1
          /\ thr'[t].status # 0 => thr'[t].writes_done = thr[t].writes_done
          /\ thr'[t].reads_done = thr[t].reads_done
          /\ thr'[t].idx = thr[t].idx + KeySize
          /\ thr'[t].pc \in { "item", "fetch" }
          /\ exit_code' = Running ]_vars

\* A worker has had one read-modify-write counted and a later one refused.
C5_Witness ==
  \E t \in Spawned :
    /\ Count(t, "rmw") >= 2
    /\ thr[t].writes_done = 1
    /\ thr[t].status # 0
    /\ thr[t].pc \in { "item", "fetch" }


\* C6: the workload fixes the operation of every key of a measurement phase,
\* and once run_benchmark has returned the totals are: READ_100, no writes and
\* as many reads as the run corpus has keys; UPSERT_100, no reads and as many
\* writes as keys; RMW_100, no reads.
C6_WorkloadFixesOperations ==
  /\ \A t \in Spawned : \A p \in DataAt(t) :
       thr[t].body = "thread_run_benchmark" =>
         /\ workload = READ_100 => thr[t].log[p].call = "read"
         /\ workload = UPSERT_100 => thr[t].log[p].call = "upsert"
         /\ workload = RMW_100 => thr[t].log[p].call = "rmw"
  /\ pc = "destroy" =>
       /\ workload = READ_100 =>
            total_writes_done_ = 0 /\ total_reads_done_ = geo.kTxnCount
       /\ workload = UPSERT_100 =>
            total_reads_done_ = 0 /\ total_writes_done_ = geo.kTxnCount
       /\ workload = RMW_100 => total_reads_done_ = 0

\* C7: once every thread of a population phase has ended, the upserts issued
\* by all of them number the keys of the load corpus, every data operation of
\* the phase was an upsert, and every key was upserted exactly once.
C7_PopulationWritesEveryKeyOnce ==
  SetupDone =>
    /\ Sum([t \in Threads |-> Count(t, "upsert")], Spawned) = geo.kInitCount
    /\ \A t \in Spawned : \A p \in DataAt(t) : thr[t].log[p].call = "upsert"
    /\ \A k \in 0 .. (geo.kInitCount - 1) :
         Cardinality({ tp \in Spawned \X (1 .. (2 + 4 * geo.kInitCount)) :
                         /\ tp[2] <= Len(thr[tp[1]].log)
                         /\ thr[tp[1]].log[tp[2]] =
                              Call("upsert", FALSE, k * KeySize) }) = 1

\* A population phase of two threads has ended and each upserted keys.
C7_Witness ==
  /\ SetupDone
  /\ thread_idx = 2
  /\ Count(0, "upsert") > 0
  /\ Count(1, "upsert") > 0

\* C8: during a measurement phase each accumulator holds exactly the local
\* values of the workers that have passed their one addition to it, and a
\* worker reaches its additions only after stop_session: a worker that still
\* requests chunks or processes keys has added nothing.
C8_PublishedOnceAfterClose ==
  RunPhase =>
    /\ total_duration_ =
         Sum([t \in Threads |-> thr[t].duration],
             { t \in Spawned :
                 thr[t].pc \in { "publish_reads", "publish_writes", "done" } })
    /\ total_reads_done_ =
         Sum([t \in Threads |-> thr[t].reads_done],
             { t \in Spawned : thr[t].pc \in { "publish_writes", "done" } })
    /\ total_writes_done_ =
         Sum([t \in Threads |-> thr[t].writes_done],
             { t \in Spawned : thr[t].pc = "done" })
    /\ \A t \in Spawned :
         thr[t].pc \in { "publish_duration", "publish_reads", "publish_writes",
                         "done" } =>
           thr[t].log[Len(thr[t].log)].call = "stop_session"

\* One worker has published its reads while another still processes keys.
C8_Witness ==
  /\ RunPhase
  /\ \E t, u \in Spawned :
       /\ thr[t].pc = "done"
       /\ thr[t].reads_done > 0
       /\ total_reads_done_ = thr[t].reads_done
       /\ thr[u].pc = "item"
       /\ thr[u].reads_done > 0

\* The worker has left its chunk loop: it has observed exhaustion and
\* decremented threads_waiting_.
LeftLoop(t) ==
  thr[t].pc \in { "drain", "stop", "publish_duration", "publish_reads",
                  "publish_writes", "done" }

\* C9 as stated: when the poll observes threads_waiting_ = 0, every worker of
\* the measurement phase has completed.
C9_PollZeroMeansAllCompleted ==
  [][ (pc = "run_poll" /\ pc' = "run_join") =>
        \A t \in 0 .. (thread_idx - 1) : thr[t].pc = "done" ]_vars

\* C9 as amended: when the poll observes threads_waiting_ = 0, every worker
\* has observed exhaustion and left its chunk loop; and when run_benchmark
\* goes on past the joins to compute the throughput, every worker has
\* completed: it has drained, closed its session and published its counters.
C9_PollZeroMeansAllExhausted ==
  [][ /\ (pc = "run_poll" /\ pc' = "run_join") =>
           \A t \in 0 .. (thread_idx - 1) : LeftLoop(t)
      /\ (pc = "run_join" /\ pc' = "destroy") =>
           /\ thread_idx = num_threads
           /\ \A t \in 0 .. (thread_idx - 1) :
                /\ thr[t].pc = "done"
                /\ thr[t].log[Len(thr[t].log)].call = "stop_session"
           /\ total_reads_done_ =
                Sum([t \in Threads |-> thr[t].reads_done], Spawned)
           /\ total_writes_done_ =
                Sum([t \in Threads |-> thr[t].writes_done], Spawned) ]_vars

\* The poll has observed zero and a worker has not yet drained.
C9_Witness ==
  /\ pc = "run_join"
  /\ joined = 0
  /\ \E t \in Spawned : thr[t].pc = "drain"

\* C10: the measurement phase of a trial of configuration c runs exactly c
\* workers, its sample is recorded under key c, and the table of a completed
\* run has one row of 3 samples per configuration.
C10_SampleKeyedByConfiguration ==
  /\ pc \in { "run_poll", "run_join" } =>
       thread_idx = thread_configurations[cfg_i]
  /\ (pc = "for_trial" /\ j >= 1) =>
       /\ thread_configurations[cfg_i] \in DOMAIN results_
       /\ Len(results_[thread_configurations[cfg_i]]) = j
  /\ pc = "print" =>
       /\ DOMAIN results_ =
            { thread_configurations[i] : i \in 1 .. Len(thread_configurations) }
       /\ \A c \in DOMAIN results_ : Len(results_[c]) = kTrials

\* The calls main makes in one trial, in the order of lines 398-431.
TrialCalls ==
  << "faster_open_with_disk", "setup_store", "run_benchmark", "faster_destroy",
     "remove_all", "push_back" >>

\* The number of entries `name` in main's history.
Calls(name) ==
  Cardinality({ p \in 1 .. Len(engine_log) : engine_log[p] = name })

\* Every spawned thread has closed its session and ended.
AllClosed ==
  \A t \in 0 .. (thread_idx - 1) :
    /\ thr[t].pc = "done"
    /\ thr[t].log[Len(thr[t].log)].call = "stop_session"

\* C11: main's calls follow, trial after trial, the order open, population
\* phase, one measurement phase, destroy, removal of the storage, record; an
\* engine instance exists exactly from its open to its destroy, so never two
\* at a time; sessions exist only on an open instance; each phase returns
\* only after all its workers have closed their sessions, and the instance is
\* destroyed with no session open; a sample is recorded only after the
\* destroy.
C11_TrialLifecycle ==
  /\ [](/\ \A p \in 1 .. Len(engine_log) :
            engine_log[p] = TrialCalls[((p - 1) % Len(TrialCalls)) + 1]
        /\ Calls("faster_open_with_disk") - Calls("faster_destroy") \in { 0, 1 }
        /\ (store.open <=>
              (Calls("faster_open_with_disk") - Calls("faster_destroy") = 1))
        /\ (store.storage <=> store.open)
        /\ (store.sessions > 0 => store.open)
        /\ (Spawned # {} => store.open))
  /\ [][/\ (pc = "setup_join" /\ pc' # "setup_join") =>
             thread_idx = geo.kSetupThreads /\ AllClosed
        /\ (pc = "run_join" /\ pc' # "run_join") => AllClosed
        /\ Calls("faster_open_with_disk")' > Calls("faster_open_with_disk") =>
             ~store.open /\ store'.open /\ store'.sessions = 0
        /\ Calls("faster_destroy")' > Calls("faster_destroy") =>
             /\ store.open /\ store.sessions = 0 /\ Spawned = {}
             /\ ~store'.open /\ ~store'.storage
        /\ Calls("push_back")' > Calls("push_back") =>
             /\ ~store.open
             /\ Calls("run_benchmark") = Calls("push_back") + 1
             /\ Calls("setup_store") = Calls("push_back") + 1 ]_vars

\* The second trial's engine instance is open and a worker has a session on it.
C11_Witness ==
  /\ Calls("push_back") = 1
  /\ Calls("faster_open_with_disk") = 2
  /\ store.open
  /\ store.sessions > 0
  /\ \E t \in Spawned : thr[t].body = "thread_run_benchmark"

\* No key file has been loaded and the engine has not been touched.
Untouched ==
  /\ pc \in { "main", "exited" }
  /\ engine_log = << >>
  /\ store = NoStore
  /\ Spawned = {}
  /\ results_ = << >>

\* No sample is held in the table.
NoSample == \A c \in DOMAIN results_ : results_[c] = << >>

\* C12: with an argument count other than 4 the process ends with code 0
\* at its first step, no key file loaded and the engine untouched; with 4
\* arguments and a workload outside {0,1,2,3} the process only ever ends with
\* code 1, run_benchmark is never entered, no measurement worker is spawned
\* and no sample is recorded; and main returns 0 after the last trial of the
\* last configuration, which with a known workload is the only way a run
\* with four arguments ends with code 0.
C12_ExitCodes ==
  /\ [](/\ argc # kNumArgs + 1 =>
            /\ Untouched
            /\ pc = "exited" => exit_code = 0
        /\ (argc = kNumArgs + 1 /\ workload \notin 0 .. 3) =>
            /\ pc = "exited" => exit_code = 1
            /\ Calls("run_benchmark") = 0
            /\ \A t \in Threads : thr[t].body # "thread_run_benchmark"
            /\ NoSample
        /\ (pc = "exited") <=> (exit_code # Running)
        /\ (argc = kNumArgs + 1 /\ pc = "exited" /\ exit_code = 0) =>
            /\ workload \in 0 .. 3
            /\ Calls("push_back") = kTrials * Len(thread_configurations)
            /\ ~store.open)
  /\ [][(pc = "print" /\ pc' # "print") => pc' = "exited" /\ exit_code' = 0]_vars

\* The process has ended at the switch over an unknown workload.
C12_Witness ==
  /\ workload \notin 0 .. 3
  /\ pc = "exited"
  /\ exit_code = 1
  /\ Calls("setup_store") = 1

\* C13: when the mixer yields Scan for an item the process ends with exit
\* code 1 at that item: the worker stays at the item, having issued no data
\* operation for it or for any later key, it is not among the workers whose
\* local values the accumulators hold, and nothing changes after the exit.
C13_ScanIsFatal ==
  /\ [](\A t \in Threads :
          thr[t].op = Op_Scan =>
            /\ pc = "exited"
            /\ exit_code = 1
            /\ thr[t].pc = "item"
            /\ \A o \in Offsets(t) : o < thr[t].idx
            /\ total_duration_ =
                 Sum([u \in Threads |-> thr[u].duration],
                     { u \in Spawned \ {t} :
                         thr[u].pc \in { "publish_reads", "publish_writes",
                                         "done" } })
            /\ total_reads_done_ =
                 Sum([u \in Threads |-> thr[u].reads_done],
                     { u \in Spawned \ {t} :
                         thr[u].pc \in { "publish_writes", "done" } })
            /\ total_writes_done_ =
                 Sum([u \in Threads |-> thr[u].writes_done],
                     { u \in Spawned \ {t} : thr[u].pc = "done" }))
  /\ [][exit_code # Running => UNCHANGED vars]_vars

\* A worker that has counted reads met a Scan after another worker published.
C13_Witness ==
  \E t, u \in Spawned :
    /\ thr[t].op = Op_Scan
    /\ thr[t].reads_done > 0
    /\ thr[u].pc = "done"
    /\ total_reads_done_ = thr[u].reads_done
    /\ exit_code = 1

\* The key files have exactly the expected lengths.
ExactFiles ==
  /\ load_bytes = geo.kInitCount * KeySize
  /\ run_bytes = geo.kTxnCount * KeySize

\* C14: load_files accepts the key files only if each holds exactly 8 times
\* its expected number of keys in bytes; with any other length the process
\* ends with exit code 1 and no engine instance was ever opened.
C14_OnlyExactFilesAccepted ==
  /\ pc \notin { "main", "load_files", "exited" } => ExactFiles
  /\ engine_log # << >> => ExactFiles
  /\ (~ExactFiles /\ pc = "exited") => exit_code = 1

\* C15: under a fair scheduler and an engine whose calls return, a
\* measurement phase with N >= 1 workers terminates: every worker spawned
\* goes on to end, which it does only after it has observed exhaustion,
\* drained, closed its session and published its counters, and run_benchmark,
\* once entered, leaves its polling loop, joins all workers and returns its
\* throughput, which main then records as one sample.
C15_MeasurementTerminates ==
  /\ \A t \in Threads :
       (thr[t].body = "thread_run_benchmark") ~>
         (thr[t].pc = "done" /\ Count(t, "stop_session") = 1)
  /\ (pc = "run_spawn" /\ num_threads >= 1) ~> (pc = "run_join")
  /\ (pc = "run_spawn" /\ num_threads >= 1) ~>
       (pc = "destroy" /\ result # NaN /\ thread_idx = num_threads)
  /\ (pc = "run_spawn" /\ num_threads >= 1) ~>
       (Len(results_[num_threads]) = 1)

\* run_benchmark has returned the throughput of a phase of two workers.
C15_Witness ==
  /\ pc = "destroy"
  /\ num_threads = 2
  /\ thread_idx = 2
  /\ result # NaN
  /\ total_reads_done_ + total_writes_done_ > 0

\* The measurement workers that exist.
RunWorkers == { t \in Threads : thr[t].body = "thread_run_benchmark" }

\* C16: when run_benchmark computes the throughput, its N workers have all
\* ended, each accumulator equals the sum of the local values of exactly
\* those N workers, and the throughput is computed from these sums; the work
\* index and the accumulators are reset when run_benchmark is entered, before
\* any of its workers exists, and workers are spawned only after that, so
\* nothing of an earlier phase or trial is included.
C16_TotalsAreThisPhasesSums ==
  [][/\ (pc = "run_join" /\ pc' = "destroy") =>
          /\ RunWorkers = 0 .. (num_threads - 1)
          /\ Spawned = RunWorkers
          /\ \A t \in RunWorkers : thr[t].pc = "done"
          /\ total_duration_ = Sum([t \in Threads |-> thr[t].duration], RunWorkers)
          /\ total_reads_done_ =
               Sum([t \in Threads |-> thr[t].reads_done], RunWorkers)
          /\ total_writes_done_ =
               Sum([t \in Threads |-> thr[t].writes_done], RunWorkers)
          /\ result' =
               Throughput(Sum([t \in Threads |-> thr[t].reads_done], RunWorkers),
                          Sum([t \in Threads |-> thr[t].writes_done], RunWorkers),
                          Sum([t \in Threads |-> thr[t].duration], RunWorkers))
     /\ (pc # "run_spawn" /\ pc' = "run_spawn") =>
          /\ Spawned = {}
          /\ idx_' = 0
          /\ total_duration_' = 0
          /\ total_reads_done_' = 0
          /\ total_writes_done_' = 0
          /\ threads_waiting_' = num_threads
     /\ RunWorkers' # RunWorkers =>
          \/ pc = "run_spawn" /\ RunWorkers \subseteq RunWorkers'
          \/ pc' = "destroy" /\ RunWorkers' = {} ]_vars

\* The throughput of the second trial's measurement phase has been computed.
C16_Witness ==
  /\ pc = "destroy"
  /\ j = 1
  /\ num_threads >= 1
  /\ total_duration_ > 0
  /\ total_reads_done_ + total_writes_done_ > 0

\* The positions of thread t's drain calls, with the ends of its history.
DrainMarks(t) ==
  { p \in 1 .. Len(thr[t].log) : thr[t].log[p].call = "complete_pending" }
    \cup { 0, Len(thr[t].log) + 1 }

\* C17: in both phases the data operations of a worker between two
\* consecutive drain calls of its session (the terminal blocking drain
\* included, and the stretch after its latest drain) number at most
\* kCompletePendingInterval keys, whichever chunks the worker was handed; it
\* issues no data operation before its first drain; and the first data
\* operation of every chunk directly follows a refresh and a non-blocking
\* drain issued for that key.
C17_BackpressureBound ==
  \A t \in Spawned :
    /\ \A a, b \in DrainMarks(t) :
         (a < b /\ \A m \in DrainMarks(t) : ~(a < m /\ m < b)) =>
           LET between == Cardinality({ p \in DataAt(t) : a < p /\ p < b })
           IN /\ between <= geo.kCompletePendingInterval \div KeySize
              /\ a = 0 => between = 0
    /\ \A p \in DataAt(t) :
         thr[t].log[p].at % geo.kChunkSize = 0 =>
           /\ p >= 3
           /\ thr[t].log[p - 1] = Call("complete_pending", FALSE, thr[t].log[p].at)
           /\ thr[t].log[p - 2] = Call("refresh_session", FALSE, thr[t].log[p].at)

\* A measurement worker has ended that processed the first and the third
\* chunk of a corpus of three, another worker the second.
C17_Witness ==
  /\ RunDone
  /\ \E t \in Spawned : Chunks(t) = { << 0, 2 >>, << 4, 6 >> }

\* The measurement workers that have made their fetch_sub.
Decremented == { t \in RunWorkers : LeftLoop(t) }

\* C18: in a measurement phase with N workers threads_waiting_ lies in
\* [0, N] and equals N minus the number of workers that have made their
\* decrement; it changes only by run_benchmark's reset and by the single
\* decrement of a worker whose chunk request has just returned exhaustion,
\* which is made on a value of at least 1, so it never wraps; a worker that
\* has decremented never requests a chunk or processes a key again; and the
\* work index never decreases within the phase, so once a request has
\* returned exhaustion every later request does.
C18_ThreadsWaitingCountsDown ==
  /\ [](RunPhase =>
          /\ threads_waiting_ \in 0 .. num_threads
          /\ threads_waiting_ = num_threads - Cardinality(Decremented)
          /\ \A t \in RunWorkers :
               /\ thr[t].pc = "exhausted" => run_exhausted(thr[t].chunk_idx)
               /\ LeftLoop(t) => run_exhausted(thr[t].chunk_idx))
  /\ [][/\ threads_waiting_' # threads_waiting_ =>
            \/ pc = "dispatch" /\ pc' = "run_spawn"
            \/ /\ threads_waiting_ >= 1
               /\ threads_waiting_' = threads_waiting_ - 1
               /\ \E t \in RunWorkers :
                    /\ thr[t].pc = "exhausted"
                    /\ thr'[t].pc = "drain"
                    /\ \A u \in Threads \ {t} : thr'[u] = thr[u]
        /\ \A t \in RunWorkers :
             (LeftLoop(t) /\ thr'[t].body = "thread_run_benchmark") =>
               /\ LeftLoop(t)'
               /\ thr'[t].chunk_idx = thr[t].chunk_idx
               /\ Offsets(t)' = Offsets(t)
        /\ (RunPhase /\ RunPhase') =>
             /\ idx_' >= idx_
             /\ run_exhausted(idx_) => run_exhausted(idx_') ]_vars

\* One worker has decremented threads_waiting_ while the other, which took
\* both chunks of the corpus, has not yet requested its last chunk.
C18_Witness ==
  /\ RunPhase
  /\ num_threads = 2
  /\ threads_waiting_ = 1
  /\ \E t, u \in RunWorkers :
       /\ LeftLoop(t)
       /\ Offsets(t) = {}
       /\ thr[u].pc = "item"
       /\ run_exhausted(idx_)

\* C19: with a workload outside {0,1,2,3} the process ends before any engine
\* instance is opened, any session started or any population write issued.
C19_UnknownWorkloadBeforeEngine ==
  workload \notin 0 .. 3 =>
    /\ engine_log = << >>
    /\ ~store.open
    /\ \A t \in Threads : thr[t].log = << >>

\* C20: two workers of a phase with distinct indices in [0, 48) that have
\* pinned themselves are pinned to distinct CPUs.
C20_DistinctCpus ==
  \A t, u \in Spawned :
    ( /\ thr[t].thread_idx # thr[u].thread_idx
      /\ thr[t].pc # "start"
      /\ thr[u].pc # "start" ) =>
      thr[t].cpu # thr[u].cpu

====
